---- MODULE Spec2Model ----
(***************************************************************************)
(* Model of src/src/data/dataset.py: the configuration-driven transform    *)
(* pipelines (DataPipeline, ImagePipeline) and the transforms they build.  *)
(*                                                                         *)
(* A pandas DataFrame is a record                                          *)
(*   [columns : sequence of column names,                                  *)
(*    index   : sequence of row labels,                                    *)
(*    rows    : sequence of rows, a row being a sequence of cells aligned  *)
(*              with columns].                                             *)
(* A cell is <<v>> for the number v, or NaN (the "no value" marker).       *)
(* A Python value handed to a transform is one of                          *)
(*   [kind |-> "DataFrame", df |-> frame]                                  *)
(*   [kind |-> "list", items |-> sequence of frames]                       *)
(*   [kind |-> "ndarray", shape, dtype, val]   (an image of uniform colour)*)
(* The result of a call is [ok |-> TRUE, value |-> v] or                   *)
(* [ok |-> FALSE, err |-> name of the exception raised].                   *)
(***************************************************************************)
EXTENDS Integers, Sequences, FiniteSets, TLC

----------------------------------------------------------------------------
(* Bounds of the model *)

MaxSteps == 3      \* steps in a configuration
MaxRows == 2       \* rows in one transform input (over all its frames)
MaxFrames == 2     \* frames in an input list
MaxVal == 1        \* volume cells and thresholds range over 0..MaxVal

----------------------------------------------------------------------------
(* Python values *)

NaN == <<>>
None == [kind |-> "None"]
Single(df) == [kind |-> "DataFrame", df |-> df]
Many(l) == [kind |-> "list", items |-> l]
Ok(v) == [ok |-> TRUE, value |-> v]
Raise(e) == [ok |-> FALSE, err |-> e]

Range(s) == {s[i] : i \in DOMAIN s}

\* position of column c in a column list (the first match)
Pos(cols, c) == CHOOSE i \in DOMAIN cols : cols[i] = c /\ \A j \in 1..(i - 1) : cols[j] # c

\* NaN compares false with everything, as in numpy
Leq(cell, t) == cell # NaN /\ cell[1] <= t

\* the subsequence of s at the positions satisfying keep, in order
RECURSIVE Keep(_, _, _)
Keep(s, keep, i) ==
    IF i > Len(s) THEN <<>>
    ELSE (IF keep[i] THEN <<s[i]>> ELSE <<>>) \o Keep(s, keep, i + 1)

----------------------------------------------------------------------------
(* Tabular transforms *)

HasCols(df, cols) == \A j \in DOMAIN cols : cols[j] \in Range(df.columns)

\* df[columns] with a list of names: the named columns in the order of the
\* list, every row, the row labels kept
SelectCols(df, cols) ==
    [columns |-> cols,
     index |-> df.index,
     rows |-> [i \in DOMAIN df.rows |->
                 [j \in DOMAIN cols |-> df.rows[i][Pos(df.columns, cols[j])]]]]

\* a selection that keeps the requested columns in the frame's own order
SelectColsFrameOrder(df, cols) ==
    LET keep == [j \in DOMAIN df.columns |-> df.columns[j] \in Range(cols)]
    IN  [columns |-> Keep(df.columns, keep, 1),
         index |-> df.index,
         rows |-> [i \in DOMAIN df.rows |-> Keep(df.rows[i], keep, 1)]]

ChooseColsFrame(df, cols) == SelectCols(df, cols)

\* a selection that drops the requested columns a frame does not have
ChooseColsLenient(columns, data) ==
    IF data.kind = "list"
    THEN Ok(Many([k \in DOMAIN data.items |->
                    SelectColsFrameOrder(data.items[k], columns)]))
    ELSE Ok(Single(SelectColsFrameOrder(data.df, columns)))

\* ChooseColsTransform.__call__
ChooseColsCall(columns, data) ==
    IF data.kind = "list"
    THEN IF \A k \in DOMAIN data.items : HasCols(data.items[k], columns)
         THEN Ok(Many([k \in DOMAIN data.items |-> ChooseColsFrame(data.items[k], columns)]))
         ELSE Raise("KeyError")
    ELSE IF HasCols(data.df, columns)
         THEN Ok(Single(ChooseColsFrame(data.df, columns)))
         ELSE Raise("KeyError")

\* df["volume"] <= volume_threshold, a boolean per row
VolumeMask(df, t) ==
    [i \in DOMAIN df.rows |-> Leq(df.rows[i][Pos(df.columns, "volume")], t)]

\* df[mask]: the rows where the mask holds, with their labels
BoolIndex(df, mask) ==
    [columns |-> df.columns,
     index |-> Keep(df.index, mask, 1),
     rows |-> Keep(df.rows, mask, 1)]

\* a filter with a strict comparison
FilterStrict(df, t) ==
    BoolIndex(df, [i \in DOMAIN df.rows |->
                     LET c == df.rows[i][Pos(df.columns, "volume")]
                     IN  c # NaN /\ c[1] < t])

\* a filter that deletes rows while iterating over them: the row after a
\* deleted row is never looked at
RECURSIVE SkipMask(_, _, _)
SkipMask(mask, i, skip) ==
    IF i > Len(mask) THEN <<>>
    ELSE IF skip THEN <<TRUE>> \o SkipMask(mask, i + 1, FALSE)
    ELSE <<mask[i]>> \o SkipMask(mask, i + 1, ~mask[i])

FilterWhileIterating(df, t) == BoolIndex(df, SkipMask(VolumeMask(df, t), 1, FALSE))

FilterFrame(df, t) == BoolIndex(df, VolumeMask(df, t))

\* a filter that hands back unfiltered every frame without a volume column
DeleteOutlierLenient(volume_threshold, data) ==
    LET pass(df) == IF HasCols(df, <<"volume">>)
                    THEN FilterFrame(df, volume_threshold) ELSE df
    IN  IF data.kind = "list"
        THEN Ok(Many([k \in DOMAIN data.items |-> pass(data.items[k])]))
        ELSE Ok(Single(pass(data.df)))

\* DeleteOutlierInVolume.__call__
DeleteOutlierCall(volume_threshold, data) ==
    IF data.kind = "list"
    THEN IF \A k \in DOMAIN data.items : HasCols(data.items[k], <<"volume">>)
         THEN Ok(Many([k \in DOMAIN data.items |-> FilterFrame(data.items[k], volume_threshold)]))
         ELSE Raise("KeyError")
    ELSE IF HasCols(data.df, <<"volume">>)
         THEN Ok(Single(FilterFrame(data.df, volume_threshold)))
         ELSE Raise("KeyError")

\* the columns of pd.concat(frames, join=...), sort=False: for inner the
\* columns of the first frame that every frame has, for outer the columns in
\* order of first appearance
RECURSIVE UnionCols(_, _, _)
UnionCols(frames, k, acc) ==
    IF k > Len(frames) THEN acc
    ELSE UnionCols(frames, k + 1,
                   acc \o Keep(frames[k].columns,
                               [j \in DOMAIN frames[k].columns |->
                                  frames[k].columns[j] \notin Range(acc)], 1))

\* a column alignment that ignores the join type and always intersects
ConcatColsAlwaysInner(frames, join) ==
    Keep(frames[1].columns,
         [j \in DOMAIN frames[1].columns |->
            \A k \in DOMAIN frames : frames[1].columns[j] \in Range(frames[k].columns)], 1)

ConcatCols(frames, join) ==
    IF join = "inner"
    THEN Keep(frames[1].columns,
              [j \in DOMAIN frames[1].columns |->
                 \A k \in DOMAIN frames : frames[1].columns[j] \in Range(frames[k].columns)], 1)
    ELSE UnionCols(frames, 1, <<>>)

\* the rows of a frame laid out on the columns cols, NaN where it has none
Reindex(df, cols) ==
    [i \in DOMAIN df.rows |->
       [j \in DOMAIN cols |->
          IF cols[j] \in Range(df.columns)
          THEN df.rows[i][Pos(df.columns, cols[j])] ELSE NaN]]

RECURSIVE StackRows(_, _, _)
StackRows(frames, cols, k) ==
    IF k > Len(frames) THEN <<>>
    ELSE Reindex(frames[k], cols) \o StackRows(frames, cols, k + 1)

RECURSIVE StackIndex(_, _)
StackIndex(frames, k) ==
    IF k > Len(frames) THEN <<>>
    ELSE frames[k].index \o StackIndex(frames, k + 1)

\* pd.concat(data, axis=0, join=join_type)
PdConcat(frames, join) ==
    LET cols == ConcatCols(frames, join)
    IN  [columns |-> cols,
         index |-> StackIndex(frames, 1),
         rows |-> StackRows(frames, cols, 1)]

\* result.reset_index(drop=True, inplace=True)
ResetIndex(df) == [df EXCEPT !.index = [i \in DOMAIN df.rows |-> i - 1]]

\* a concatenation whose reset_index result is thrown away
ConcatKeepIndex(frames, join) == PdConcat(frames, join)

ConcatFrames(frames, join) == ResetIndex(PdConcat(frames, join))

\* ConcatDataFrames.__call__
ConcatCall(join_type, data) ==
    IF data.kind # "list" THEN Raise("TypeError")
    ELSE IF join_type \notin {"inner", "outer"} THEN Raise("ValueError")
    ELSE IF Len(data.items) = 0 THEN Raise("ValueError")
    ELSE Ok(Single(ConcatFrames(data.items, join_type)))

----------------------------------------------------------------------------
(* Image transforms.  An image is modelled by its shape <<height, width,    *)
(* channels>> (<<height, width>> for a single-channel image), its dtype and *)
(* the colour level all its pixels share, a fraction <<n, d>>; d = 0 stands *)
(* for inf (n > 0), -inf (n < 0) and nan (n = 0).                           *)

Image(shape, dtype, val) == [kind |-> "ndarray", shape |-> shape, dtype |-> dtype, val |-> val]

Abs(n) == IF n < 0 THEN -n ELSE n
Sign(n) == IF n < 0 THEN -1 ELSE IF n > 0 THEN 1 ELSE 0

RECURSIVE Gcd(_, _)
Gcd(a, b) == IF b = 0 THEN a ELSE Gcd(b, a % b)

\* the fraction n/d in lowest terms with a positive denominator
Frac(n, d) ==
    IF d = 0 THEN <<Sign(n), 0>>
    ELSE LET g == Gcd(Abs(n), Abs(d))
         IN  <<Sign(d) * (n \div g), Abs(d) \div g>>

\* (val - mean) / std in floating point: a zero std gives inf or nan
NormalizeVal(val, mean, std) ==
    IF val[2] = 0
    THEN IF val[1] = 0 THEN <<0, 0>>
         ELSE IF std = 0 THEN val ELSE <<val[1] * Sign(std), 0>>
    ELSE Frac(val[1] - mean * val[2], std * val[2])

\* ResizeTransform.__call__: cv2.resize(image, (width, height))
ResizeCall(width, height, image) ==
    IF width <= 0 \/ height <= 0 THEN Raise("cv2.error")
    ELSE Ok([image EXCEPT !.shape = <<height, width>> \o SubSeq(image.shape, 3, Len(image.shape))])

\* NormalizeTransform.__call__
NormalizeCall(mean, std, image) ==
    Ok([image EXCEPT !.dtype = "float32", !.val = NormalizeVal(image.val, mean, std)])

\* ConvertColorTransform.__call__: cv2.cvtColor(image, code) for the codes
\* COLOR_BGR2RGB (4), COLOR_BGR2GRAY (6) and COLOR_GRAY2BGR (8)
ConvertColorCall(code, image) ==
    CASE code = 4 ->
           IF Len(image.shape) = 3 /\ image.shape[3] \in {3, 4}
           THEN Ok([image EXCEPT !.shape = <<image.shape[1], image.shape[2], 3>>])
           ELSE Raise("cv2.error")
      [] code = 6 ->
           IF Len(image.shape) = 3 /\ image.shape[3] \in {3, 4}
           THEN Ok([image EXCEPT !.shape = <<image.shape[1], image.shape[2]>>])
           ELSE Raise("cv2.error")
      [] code = 8 ->
           IF Len(image.shape) = 2 \/ image.shape[3] = 1
           THEN Ok([image EXCEPT !.shape = <<image.shape[1], image.shape[2], 3>>])
           ELSE Raise("cv2.error")

----------------------------------------------------------------------------
(* Construction of a pipeline *)

Compose(ts) == [kind |-> "Compose", transforms |-> ts]

\* a chain whose last branch is missing
DataRegistryNoConcat ==
    [choose_columns |-> "ChooseColsTransform",
     delete_outlier_in_volume |-> "DeleteOutlierInVolume"]

\* the if/elif chain of DataPipeline._build_pipeline
DataRegistry ==
    [choose_columns |-> "ChooseColsTransform",
     delete_outlier_in_volume |-> "DeleteOutlierInVolume",
     concat_dataframes |-> "ConcatDataFrames"]

\* the if/elif chain of ImagePipeline._build_pipeline
ImageRegistry ==
    [resize |-> "ResizeTransform",
     normalize |-> "NormalizeTransform",
     convert_color |-> "ConvertColorTransform"]

Registry(cls) == IF cls = "DataPipeline" THEN DataRegistry ELSE ImageRegistry

\* the parameters of each transform's __init__ (none has a default)
InitParams ==
    [ChooseColsTransform |-> {"columns"},
     DeleteOutlierInVolume |-> {"volume_threshold"},
     ConcatDataFrames |-> {"join_type"},
     ResizeTransform |-> {"width", "height"},
     NormalizeTransform |-> {"mean", "std"},
     ConvertColorTransform |-> {"code"}]

\* a constructor taking **kwargs: any parameter names are accepted
NewAnyParams(class, params) == Ok([cls |-> class, attrs |-> params])

\* Class(**params): the keys must be exactly the parameters of __init__;
\* the values are stored unchecked
New(class, params) ==
    IF DOMAIN params = InitParams[class]
    THEN Ok([cls |-> class, attrs |-> params])
    ELSE Raise("TypeError")

\* an iteration that inserts the new transform at the front of the list
BuildStepPrepend(cls, step, acc) ==
    IF "step" \notin DOMAIN step \/ "params" \notin DOMAIN step THEN Raise("KeyError")
    ELSE IF step.step \in DOMAIN Registry(cls)
    THEN LET t == New(Registry(cls)[step.step], step.params)
         IN  IF t.ok THEN Ok(<<t.value>> \o acc) ELSE t
    ELSE Ok(acc)

\* an iteration that appends after the if/elif chain: on an unknown tag the
\* transform of the previous iteration is appended again
BuildStepStale(cls, step, acc) ==
    IF "step" \notin DOMAIN step \/ "params" \notin DOMAIN step THEN Raise("KeyError")
    ELSE IF step.step \in DOMAIN Registry(cls)
    THEN LET t == New(Registry(cls)[step.step], step.params)
         IN  IF t.ok THEN Ok(Append(acc, t.value)) ELSE t
    ELSE IF Len(acc) > 0 THEN Ok(Append(acc, acc[Len(acc)])) ELSE Ok(acc)

\* one iteration of the loop of _build_pipeline on the list acc
BuildStep(cls, step, acc) ==
    IF "step" \notin DOMAIN step \/ "params" \notin DOMAIN step THEN Raise("KeyError")
    ELSE IF step.step \in DOMAIN Registry(cls)
    THEN LET t == New(Registry(cls)[step.step], step.params)
         IN  IF t.ok THEN Ok(Append(acc, t.value)) ELSE t
    ELSE Ok(acc)

\* the loop of _build_pipeline from step i on: the list built, and the
\* exception that ended the loop early ("none" when it ran to its end)
RECURSIVE BuildLoop(_, _, _, _)
BuildLoop(cls, steps, i, acc) ==
    IF i > Len(steps) THEN [transformations |-> acc, err |-> "none"]
    ELSE LET r == BuildStep(cls, steps[i], acc)
         IN  IF r.ok THEN BuildLoop(cls, steps, i + 1, r.value)
             ELSE [transformations |-> acc, err |-> r.err]

\* a construction that composes the list before the loop fills it
BuildPipelineEager(cls, cfg) ==
    IF "pre_processing_steps" \notin DOMAIN cfg
    THEN [transformations |-> <<>>, composed_transforms |-> Compose(<<>>), err |-> "KeyError"]
    ELSE LET r == BuildLoop(cls, cfg.pre_processing_steps, 1, <<>>)
         IN  [transformations |-> r.transformations,
              composed_transforms |-> Compose(r.transformations),
              err |-> r.err]

\* __init__ after _load_config: the fields of the object when __init__
\* returns or raises
BuildPipeline(cls, cfg) ==
    IF "pre_processing_steps" \notin DOMAIN cfg
    THEN [transformations |-> <<>>, composed_transforms |-> None, err |-> "KeyError"]
    ELSE LET r == BuildLoop(cls, cfg.pre_processing_steps, 1, <<>>)
         IN  [transformations |-> r.transformations,
              composed_transforms |->
                 IF r.err = "none" THEN Compose(r.transformations) ELSE None,
              err |-> r.err]

----------------------------------------------------------------------------
(* Application of a pipeline *)

\* transform(data): the __call__ of the transform's class
Call(t, data) ==
    CASE t.cls = "ChooseColsTransform" -> ChooseColsCall(t.attrs.columns, data)
      [] t.cls = "DeleteOutlierInVolume" -> DeleteOutlierCall(t.attrs.volume_threshold, data)
      [] t.cls = "ConcatDataFrames" -> ConcatCall(t.attrs.join_type, data)
      [] t.cls = "ResizeTransform" -> ResizeCall(t.attrs.width, t.attrs.height, data)
      [] t.cls = "NormalizeTransform" -> NormalizeCall(t.attrs.mean, t.attrs.std, data)
      [] t.cls = "ConvertColorTransform" -> ConvertColorCall(t.attrs.code, data)

\* a transform that filters and normalizes in place: the caller's object
\* holds the result afterwards
LeavesInPlace(tr, v) ==
    LET r == Call(tr, v)
    IN  IF r.ok /\ tr.cls \in {"DeleteOutlierInVolume", "NormalizeTransform"}
        THEN r.value ELSE v

\* the value of the caller's argument object once transform(v) has returned
\* or raised.  No __call__ assigns to its argument or calls an in-place
\* method on it: indexing, pd.concat, the arithmetic of normalize and the
\* cv2 functions all build a new object, and reset_index(inplace=True) acts
\* on the frame pd.concat returned.
Leaves(tr, v) ==
    CASE tr.cls = "ChooseColsTransform" -> v
      [] tr.cls = "DeleteOutlierInVolume" -> v
      [] tr.cls = "ConcatDataFrames" -> v
      [] tr.cls = "ResizeTransform" -> v
      [] tr.cls = "NormalizeTransform" -> v
      [] tr.cls = "ConvertColorTransform" -> v

\* Compose.__call__ from transform i on: for t in transforms: img = t(img).
\* log records every call made: the transform's position, its argument,
\* what it returned or raised, and what it left in its argument.
RECURSIVE RunCompose(_, _, _, _)
RunCompose(ts, i, v, log) ==
    IF i > Len(ts) THEN [out |-> Ok(v), calls |-> log]
    ELSE LET r == Call(ts[i], v)
             log2 == Append(log, [pos |-> i, arg |-> v, ret |-> r,
                                  left |-> Leaves(ts[i], v)])
         IN  IF r.ok THEN RunCompose(ts, i + 1, r.value, log2)
             ELSE [out |-> r, calls |-> log2]

\* a composition that hands every transform the pipeline's input
RECURSIVE RunAllOnInput(_, _, _, _, _)
RunAllOnInput(ts, i, v0, v, log) ==
    IF i > Len(ts) THEN [out |-> Ok(v), calls |-> log]
    ELSE LET r == Call(ts[i], v0)
             log2 == Append(log, [pos |-> i, arg |-> v0, ret |-> r,
                                  left |-> Leaves(ts[i], v0)])
         IN  IF r.ok THEN RunAllOnInput(ts, i + 1, v0, r.value, log2)
             ELSE [out |-> r, calls |-> log2]

\* an apply that runs the transforms without looking at composed_transforms
ApplyUnchecked(composed, ts, data) == RunCompose(ts, 1, data, <<>>)

\* an apply whose composition restarts from the input at every transform
ApplyFromInput(composed, ts, data) ==
    IF composed = None THEN [out |-> Raise("RuntimeError"), calls |-> <<>>]
    ELSE RunAllOnInput(composed.transforms, 1, data, data, <<>>)

\* an apply that turns whatever a transform raises into a RuntimeError
ApplyWrapErrors(composed, ts, data) ==
    IF composed = None THEN [out |-> Raise("RuntimeError"), calls |-> <<>>]
    ELSE LET r == RunCompose(composed.transforms, 1, data, <<>>)
         IN  IF r.out.ok THEN r ELSE [out |-> Raise("RuntimeError"), calls |-> r.calls]

\* DataPipeline.apply / ImagePipeline.apply on an object whose fields are
\* composed (composed_transforms) and ts (transformations)
ApplyPipeline(composed, ts, data) ==
    IF composed = None THEN [out |-> Raise("RuntimeError"), calls |-> <<>>]
    ELSE RunCompose(composed.transforms, 1, data, <<>>)

\* the caller's input object after apply: the first transform is the only
\* one that is handed it; every later one gets the object the one before
\* returned
InputAfter(data, log) == IF log = <<>> THEN data ELSE log[1].left

\* an apply that builds the pipeline again before running it
ApplyRebuilds(composed, ts) ==
    [transformations |-> ts \o ts, composed_transforms |-> Compose(ts \o ts)]

\* the fields of the pipeline object after apply: apply and the transforms'
\* __call__ assign to no attribute of self
SelfAfterApply(composed, ts) ==
    [transformations |-> ts, composed_transforms |-> composed]

----------------------------------------------------------------------------
(* Configurations and inputs *)

\* the steps configurations are made of: well-formed steps of every kind,
\* steps whose params do not fit the constructor, a tag no pipeline knows,
\* and a step without its params key
StepPool ==
    { [step |-> "choose_columns", params |-> [columns |-> <<"volume", "A">>]],
      [step |-> "choose_columns", params |-> [columns |-> <<"price">>]],
      [step |-> "choose_columns", params |-> [columns |-> <<"A">>, axis |-> 1]],
      [step |-> "delete_outlier_in_volume", params |-> [volume_threshold |-> 100]],
      [step |-> "delete_outlier_in_volume", params |-> [n \in {} |-> 0]],
      [step |-> "concat_dataframes", params |-> [join_type |-> "outer"]],
      [step |-> "concat_dataframes", params |-> [join_type |-> "left"]],
      [step |-> "concat_dataframes"],
      [step |-> "drop_duplicates", params |-> [subset |-> <<"A">>]],
      [step |-> "resize", params |-> [width |-> 2, height |-> 1]],
      [step |-> "normalize", params |-> [mean |-> 1, std |-> 2]],
      [step |-> "convert_color", params |-> [code |-> 6]] }

SeqsUpTo(S, n) == UNION {[1..m -> S] : m \in 0..n}

\* what yaml.safe_load returns: a document with the list of steps, or one
\* without the pre_processing_steps key
Configs ==
    {[pre_processing_steps |-> st] : st \in SeqsUpTo(StepPool, MaxSteps)}
        \cup {[steps |-> <<>>]}

\* a cell that identifies where it comes from: frame k, row i, column j
Tag(k, i, j) == 100 * k + 10 * i + j

ColLists == {<<"A", "volume">>, <<"volume", "B">>, <<"B">>}

VolumeCells == {NaN} \cup {<<v>> : v \in 0..MaxVal}

\* the frames with columns cl and n rows, as frame k of an input: a fresh
\* RangeIndex, any volume cells, tagged cells elsewhere
Frames(cl, n, k) ==
    {[columns |-> cl,
      index |-> [i \in 1..n |-> i - 1],
      rows |-> [i \in 1..n |->
                  [j \in 1..Len(cl) |->
                     IF cl[j] = "volume" THEN vol[i] ELSE <<Tag(k, i, j)>>]]] :
       vol \in [1..n -> VolumeCells]}

FramesUpTo(n, k) == UNION {Frames(cl, m, k) : cl \in ColLists, m \in 0..n}

NumRows(l) == Len(StackIndex(l, 1))

\* the lists of at most MaxFrames frames holding at most MaxRows rows
RECURSIVE Lists(_, _)
Lists(len, rows) ==
    IF len = 0 THEN {<<>>}
    ELSE UNION {{Append(l, f) : f \in FramesUpTo(rows - NumRows(l), len)} :
                  l \in Lists(len - 1, rows)}

TabularInputs ==
    {Single(f) : f \in FramesUpTo(MaxRows, 1)}
        \cup {Many(l) : l \in UNION {Lists(n, MaxRows) : n \in 0..MaxFrames}}

Thresholds == 0..MaxVal

ColumnChoices == {<<"A">>, <<"volume", "A">>, <<"volume">>}

JoinTypes == {"inner", "outer", "left"}

\* the inputs the pipelines are applied to
SampleA == [columns |-> <<"A", "volume">>, index |-> <<0, 1>>,
            rows |-> << << <<11>>, <<200>> >>, << <<12>>, <<100>> >> >>]
SampleB == [columns |-> <<"volume", "B">>, index |-> <<0>>,
            rows |-> << << <<0>>, <<21>> >> >>]
SampleC == [columns |-> <<"B">>, index |-> <<0>>, rows |-> << << <<31>> >> >>]

\* the two record sets of the end-to-end example
ExampleOne == [columns |-> <<"price", "volume">>, index |-> <<0, 1>>,
               rows |-> << << <<10>>, <<50>> >>, << <<20>>, <<150>> >> >>]
ExampleTwo == [columns |-> <<"price", "volume">>, index |-> <<0>>,
               rows |-> << << <<30>>, <<5>> >> >>]

DataSamples ==
    {Many(<<ExampleOne, ExampleTwo>>), Single(SampleA), Single(SampleC), Many(<<SampleA, SampleB>>),
     Many(<<SampleA, SampleC>>), Many(<<SampleB>>), Many(<<>>)}

ImageSamples ==
    {Image(<<2, 2, 3>>, "uint8", <<3, 1>>),
     Image(<<1, 2>>, "uint8", <<1, 1>>),
     Image(<<2, 1, 3>>, "float32", <<1, 2>>)}

----------------------------------------------------------------------------
(* State *)

VARIABLES
    cls,                    \* the class of the pipeline object
    pre_processing_config,  \* self.pre_processing_config
    transformations,        \* self.transformations
    composed_transforms,    \* self.composed_transforms
    phase,                  \* "new", then "built" or "failed" once __init__ ended
    error,                  \* what __init__ raised, "none" if it returned
    data,                   \* the argument of the last apply
    result,                 \* what the last apply returned or raised
    calls,                  \* the transform calls the last apply made
    held,                   \* the caller's input object after the last apply
    t,                      \* a transform object called on its own
    arg,                    \* the argument of its last call
    ret,                    \* what that call returned or raised
    prev                    \* the call before, when the result was fed back

pipeVars == <<cls, pre_processing_config, transformations, composed_transforms,
              phase, error, data, result, calls, held>>
callVars == <<t, arg, ret, prev>>
vars == <<pipeVars, callVars>>

PipeInit ==
    /\ cls = "none"
    /\ pre_processing_config = None
    /\ transformations = <<>>
    /\ composed_transforms = None
    /\ phase = "new"
    /\ error = "none"
    /\ data = None
    /\ result = None
    /\ calls = <<>>
    /\ held = None

Init ==
    /\ PipeInit
    /\ t = None /\ arg = None /\ ret = None /\ prev = None

\* Pipeline(config_path): __init__ sets the fields, loads the configuration
\* and builds the pipeline; if the build raises, the fields stay as they were
\* when it raised
Construct(c, cfg) ==
    /\ LET b == BuildPipeline(c, cfg)
       IN  /\ cls' = c
           /\ pre_processing_config' = cfg
           /\ transformations' = b.transformations
           /\ composed_transforms' = b.composed_transforms
           /\ error' = b.err
           /\ phase' = IF b.err = "none" THEN "built" ELSE "failed"
    /\ UNCHANGED <<data, result, calls, held, callVars>>

DataPipelineInit == phase = "new" /\ \E cfg \in Configs : Construct("DataPipeline", cfg)

ImagePipelineInit == phase = "new" /\ \E cfg \in Configs : Construct("ImagePipeline", cfg)

\* pipeline.apply(d)
Apply(d) ==
    /\ phase # "new"
    /\ LET r == ApplyPipeline(composed_transforms, transformations, d)
           self == SelfAfterApply(composed_transforms, transformations)
       IN  /\ data' = d
           /\ result' = r.out
           /\ calls' = r.calls
           /\ held' = InputAfter(d, r.calls)
           /\ transformations' = self.transformations
           /\ composed_transforms' = self.composed_transforms
    /\ UNCHANGED <<cls, pre_processing_config, phase, error, callVars>>

DataPipelineApply == cls = "DataPipeline" /\ \E d \in DataSamples : Apply(d)

ImagePipelineApply == cls = "ImagePipeline" /\ \E d \in ImageSamples : Apply(d)

Next ==
    \/ DataPipelineInit
    \/ ImagePipelineInit
    \/ DataPipelineApply
    \/ ImagePipelineApply

Spec == Init /\ [][Next]_vars

----------------------------------------------------------------------------
(* The tabular transforms called on their own *)

InitT ==
    /\ PipeInit
    /\ t = None /\ ret = None /\ prev = None
    /\ arg \in TabularInputs

\* transform = Class(**params); transform(arg)
CallNew(class, params) ==
    /\ t = None
    /\ t' = New(class, params).value
    /\ ret' = Call(t', arg)
    /\ UNCHANGED <<arg, prev, pipeVars>>

CallChooseCols ==
    \E c \in ColumnChoices : CallNew("ChooseColsTransform", [columns |-> c])

CallDeleteOutlier ==
    \E th \in Thresholds : CallNew("DeleteOutlierInVolume", [volume_threshold |-> th])

CallConcat ==
    \E j \in JoinTypes : CallNew("ConcatDataFrames", [join_type |-> j])

\* transform(transform(arg)): the value returned is handed to the same
\* transform again
CallAgain ==
    /\ t # None /\ prev = None
    /\ ret.ok
    /\ prev' = [arg |-> arg, ret |-> ret]
    /\ arg' = ret.value
    /\ ret' = Call(t, ret.value)
    /\ UNCHANGED <<t, pipeVars>>

NextT ==
    \/ CallChooseCols
    \/ CallDeleteOutlier
    \/ CallConcat
    \/ CallAgain

SpecT == InitT /\ [][NextT]_vars

----------------------------------------------------------------------------
(* Claims about construction and application (specification Spec) *)

Steps == pre_processing_config.pre_processing_steps

Constructed == phase # "new"

Applied == data # None

\* the tags each class dispatches on and the class each tag names, as the
\* configuration format documents them
OwnTags(c) ==
    IF c = "DataPipeline"
    THEN {"choose_columns", "delete_outlier_in_volume", "concat_dataframes"}
    ELSE {"resize", "normalize", "convert_color"}

SixTags == OwnTags("DataPipeline") \cup OwnTags("ImagePipeline")

TagClass ==
    [choose_columns |-> "ChooseColsTransform",
     delete_outlier_in_volume |-> "DeleteOutlierInVolume",
     concat_dataframes |-> "ConcatDataFrames",
     resize |-> "ResizeTransform",
     normalize |-> "NormalizeTransform",
     convert_color |-> "ConvertColorTransform"]

RequiredParams ==
    [choose_columns |-> {"columns"},
     delete_outlier_in_volume |-> {"volume_threshold"},
     concat_dataframes |-> {"join_type"},
     resize |-> {"width", "height"},
     normalize |-> {"mean", "std"},
     convert_color |-> {"code"}]

\* the document has the list of steps and every step has both its keys
WellFormed(cfg) ==
    /\ "pre_processing_steps" \in DOMAIN cfg
    /\ \A i \in DOMAIN cfg.pre_processing_steps :
          {"step", "params"} \subseteq DOMAIN cfg.pre_processing_steps[i]

ParamsFit(step) == DOMAIN step.params = RequiredParams[step.step]

\* every step is a step of this class of pipeline with exactly its params
ValidFor(c, cfg) ==
    /\ WellFormed(cfg)
    /\ \A i \in DOMAIN cfg.pre_processing_steps :
          /\ cfg.pre_processing_steps[i].step \in OwnTags(c)
          /\ ParamsFit(cfg.pre_processing_steps[i])

BuiltFrom(step) == [cls |-> TagClass[step.step], attrs |-> step.params]

\* C1: for a valid configuration of N steps, construction succeeds with
\* exactly N transforms, the i-th built from the i-th step (same kind, same
\* params), and the composition is over that sequence.
C1_OrderPreserved ==
    (Constructed /\ ValidFor(cls, pre_processing_config)) =>
        /\ phase = "built"
        /\ Len(transformations) = Len(Steps)
        /\ \A i \in DOMAIN Steps : transformations[i] = BuiltFrom(Steps[i])
        /\ composed_transforms = Compose(transformations)

C1_Witness ==
    /\ Constructed /\ ValidFor(cls, pre_processing_config)
    /\ Len(Steps) = 3
    /\ transformations[1].cls # transformations[2].cls
    /\ transformations[2].cls # transformations[3].cls

\* C2: a successful apply on a built pipeline called every transform once,
\* in declared order, the first on the input and each next one on the value
\* the one before returned, and returned what the last one returned (the
\* input itself when there is no transform).
C2_LeftToRight ==
    (phase = "built" /\ Applied /\ result.ok) =>
        LET ts == transformations
        IN  /\ Len(calls) = Len(ts)
            /\ \A k \in DOMAIN calls :
                  /\ calls[k].pos = k
                  /\ calls[k].arg = (IF k = 1 THEN data ELSE calls[k - 1].ret.value)
                  /\ calls[k].ret = Call(ts[k], calls[k].arg)
                  /\ calls[k].ret.ok
            /\ result.value = (IF Len(ts) = 0 THEN data ELSE calls[Len(ts)].ret.value)

C2_Witness ==
    /\ phase = "built" /\ Applied /\ result.ok
    /\ Len(transformations) = 3
    /\ calls[1].ret.value # data
    /\ calls[2].ret.value # calls[1].ret.value
    /\ result.value # calls[2].ret.value

\* C3: after a failed construction there is no composed transform, whatever
\* was instantiated before the failure, and every apply raises the not-ready
\* error without calling a transform.
C3_AllOrNothing ==
    (phase = "failed") =>
        /\ composed_transforms = None
        /\ Applied => (result = Raise("RuntimeError") /\ calls = <<>>)

C3_Witness ==
    /\ phase = "failed"
    /\ Len(transformations) > 0
    /\ Applied
    /\ result = Raise("RuntimeError")

\* a step of this class whose param names are not those of the constructor
NameMismatch(c, step) ==
    /\ {"step", "params"} \subseteq DOMAIN step
    /\ step.step \in OwnTags(c)
    /\ ~ParamsFit(step)

\* a step of this class whose join_type is outside {inner, outer}
ValueMismatch(c, step) ==
    /\ {"step", "params"} \subseteq DOMAIN step
    /\ step.step \in OwnTags(c)
    /\ step.step = "concat_dataframes"
    /\ ParamsFit(step)
    /\ step.params.join_type \notin {"inner", "outer"}

\* C4 as stated: a recognized step whose params have an extra or missing
\* name, or a value outside the expected set, makes construction fail.
C4_AsStated ==
    (Constructed /\ "pre_processing_steps" \in DOMAIN pre_processing_config) =>
        \A i \in DOMAIN Steps :
            (NameMismatch(cls, Steps[i]) \/ ValueMismatch(cls, Steps[i])) =>
                phase = "failed"

\* C4 amended: an extra or a missing parameter name makes construction fail
\* (so no apply ever runs a transform of that pipeline); a join_type outside
\* {inner, outer} is stored unchecked, construction succeeds when nothing
\* else is wrong, and the concatenate transform raises when apply reaches it.
C4_NamesAtConstructionValuesAtApply ==
    (Constructed /\ "pre_processing_steps" \in DOMAIN pre_processing_config) =>
        /\ \A i \in DOMAIN Steps :
              NameMismatch(cls, Steps[i]) =>
                  /\ phase = "failed"
                  /\ error \in {"TypeError", "KeyError"}
                  /\ calls = <<>>
        /\ ValidFor(cls, pre_processing_config) =>
              /\ phase = "built"
              /\ \A i \in DOMAIN Steps :
                    (ValueMismatch(cls, Steps[i]) /\ Applied /\ Len(calls) >= i) =>
                        /\ Len(calls) = i
                        /\ ~calls[i].ret.ok
                        /\ result = calls[i].ret

C4_Witness ==
    /\ phase = "failed" /\ error = "TypeError"
    /\ Len(transformations) = 2
    /\ NameMismatch(cls, Steps[3])
    /\ Applied

\* the transforms of the steps of this class, in the order of the steps
Recognized(c, steps) ==
    LET mine == Keep(steps, [i \in DOMAIN steps |-> steps[i].step \in OwnTags(c)], 1)
    IN  [i \in DOMAIN mine |-> BuiltFrom(mine[i])]

HasUnknownTag(steps) == \E i \in DOMAIN steps : steps[i].step \notin SixTags

\* C5: a step whose tag the pipeline does not know is skipped silently:
\* when every step it knows fits its constructor, construction succeeds and
\* the transforms are those of the known steps, in their declared order.
C5_UnknownSkipped ==
    (/\ Constructed
     /\ WellFormed(pre_processing_config)
     /\ \A i \in DOMAIN Steps : Steps[i].step \in OwnTags(cls) => ParamsFit(Steps[i])) =>
        /\ phase = "built" /\ error = "none"
        /\ transformations = Recognized(cls, Steps)
        /\ composed_transforms = Compose(transformations)

C5_Witness ==
    /\ phase = "built"
    /\ Len(Steps) = 3
    /\ Steps[2].step \notin SixTags
    /\ Len(transformations) = 2
    /\ transformations[1].cls # transformations[2].cls

\* C6 as stated: a built pipeline holds the transform of every step that
\* carries one of the six tags with its required params.
C6_AsStated ==
    (phase = "built") =>
        \A i \in DOMAIN Steps :
            (Steps[i].step \in SixTags /\ ParamsFit(Steps[i])) =>
                \E k \in DOMAIN transformations : transformations[k] = BuiltFrom(Steps[i])

\* C6 amended: the six tags are split over two registries.  A built
\* DataPipeline holds the transform of every choose_columns,
\* delete_outlier_in_volume and concat_dataframes step, a built ImagePipeline
\* that of every resize, normalize and convert_color step; a step carrying a
\* tag of the other class yields no transform.
C6_TwoRegistries ==
    (phase = "built") =>
        /\ \A i \in DOMAIN Steps :
              (Steps[i].step \in OwnTags(cls) /\ ParamsFit(Steps[i])) =>
                  \E k \in DOMAIN transformations : transformations[k] = BuiltFrom(Steps[i])
        /\ \A k \in DOMAIN transformations :
              \E i \in DOMAIN Steps :
                  Steps[i].step \in OwnTags(cls) /\ transformations[k] = BuiltFrom(Steps[i])
        /\ Len(transformations) =
              Cardinality({i \in DOMAIN Steps : Steps[i].step \in OwnTags(cls)})

C6_Witness ==
    /\ phase = "built"
    /\ Len(Steps) = 3
    /\ {Steps[i].step : i \in DOMAIN Steps} = OwnTags(cls)
    /\ Len(transformations) = 3

----------------------------------------------------------------------------
(* Claims about the tabular transforms (specification SpecT) *)

Called(class) == t # None /\ t.cls = class

\* the frames of a value, a single frame counting as one
FramesOf(v) == IF v.kind = "list" THEN v.items ELSE <<v.df>>

\* the cell of row i of df in the column named c
CellAt(df, i, c) ==
    LET j == CHOOSE n \in DOMAIN df.columns : df.columns[n] = c
    IN  df.rows[i][j]

\* out holds exactly the columns cols of in, in the order of cols, and all
\* of its rows
Selected(in, out, cols) ==
    /\ out.columns = cols
    /\ out.index = in.index
    /\ Len(out.rows) = Len(in.rows)
    /\ \A i \in DOMAIN in.rows :
          /\ Len(out.rows[i]) = Len(cols)
          /\ \A j \in DOMAIN cols : out.rows[i][j] = CellAt(in, i, cols[j])

\* C7: select-columns on a list of K frames that all have the requested
\* columns returns a list of K frames in the same order, the i-th holding
\* exactly the requested columns of the i-th input, in the order requested,
\* and all its rows; on a single frame it returns a single frame likewise.
C7_SelectColumns ==
    (/\ Called("ChooseColsTransform")
     /\ \A k \in DOMAIN FramesOf(arg) :
           Range(t.attrs.columns) \subseteq Range(FramesOf(arg)[k].columns)) =>
        /\ ret.ok
        /\ ret.value.kind = arg.kind
        /\ Len(FramesOf(ret.value)) = Len(FramesOf(arg))
        /\ \A k \in DOMAIN FramesOf(arg) :
              Selected(FramesOf(arg)[k], FramesOf(ret.value)[k], t.attrs.columns)

C7_Witness ==
    /\ Called("ChooseColsTransform")
    /\ t.attrs.columns = <<"volume", "A">>
    /\ arg.kind = "list" /\ Len(arg.items) = 2
    /\ \A k \in 1..2 : arg.items[k].columns = <<"A", "volume">> /\ Len(arg.items[k].rows) = 1
    /\ ret.ok

\* the position in df of the row labelled l
RowOf(df, l) == CHOOSE i \in DOMAIN df.index : df.index[i] = l

\* out holds exactly the rows of in whose volume is <= th, unchanged and in
\* their original order (rows are told apart by their labels)
Filtered(in, out, th) ==
    /\ out.columns = in.columns
    /\ Len(out.rows) = Len(out.index)
    /\ \A i \in DOMAIN in.rows :
          LET v == CellAt(in, i, "volume")
          IN  /\ (in.index[i] \in Range(out.index)) <=> (v # NaN /\ v[1] <= th)
              /\ (v # NaN /\ v[1] > th) => in.index[i] \notin Range(out.index)
    /\ \A m \in DOMAIN out.rows :
          /\ out.index[m] \in Range(in.index)
          /\ out.rows[m] = in.rows[RowOf(in, out.index[m])]
    /\ \A m, n \in DOMAIN out.rows :
          m < n => RowOf(in, out.index[m]) < RowOf(in, out.index[n])

\* C8: filter-by-threshold with threshold T keeps a row if and only if its
\* volume is <= T (a row at exactly T is kept, a row above T is removed);
\* the rows kept are unchanged and in their original order, frame by frame
\* when the input is a list.
C8_FilterKeepsLeq ==
    (/\ Called("DeleteOutlierInVolume")
     /\ \A k \in DOMAIN FramesOf(arg) : "volume" \in Range(FramesOf(arg)[k].columns)) =>
        /\ ret.ok
        /\ ret.value.kind = arg.kind
        /\ Len(FramesOf(ret.value)) = Len(FramesOf(arg))
        /\ \A k \in DOMAIN FramesOf(arg) :
              Filtered(FramesOf(arg)[k], FramesOf(ret.value)[k], t.attrs.volume_threshold)

C8_Witness ==
    /\ Called("DeleteOutlierInVolume") /\ prev = None
    /\ arg.kind = "DataFrame"
    /\ arg.df.columns = <<"A", "volume">>
    /\ Len(arg.df.rows) = 2
    /\ arg.df.rows[1][2] = <<t.attrs.volume_threshold + 1>>
    /\ arg.df.rows[2][2] = <<t.attrs.volume_threshold>>
    /\ ret.ok
    /\ ret.value.df.index = <<1>>

\* C9: filtering the output of the filter again with the same threshold
\* returns a value equal to that output.
C9_FilterIdempotent ==
    (Called("DeleteOutlierInVolume") /\ prev # None) =>
        /\ ret.ok
        /\ ret.value = prev.ret.value

C9_Witness ==
    /\ Called("DeleteOutlierInVolume") /\ prev # None
    /\ prev.arg.kind = "list" /\ Len(prev.arg.items) = 2
    /\ prev.ret.value # prev.arg
    /\ \E k \in 1..2 : Len(prev.ret.value.items[k].rows) > 0
    /\ ret.ok

RECURSIVE SumRows(_)
SumRows(frames) ==
    IF frames = <<>> THEN 0 ELSE Len(Head(frames).rows) + SumRows(Tail(frames))

\* the rows of the frames before frame k
Offset(frames, k) == SumRows(SubSeq(frames, 1, k - 1))

\* C10: concat_dataframes with join_type inner on a non-empty list of frames
\* returns one frame whose columns are those present in every input, whose
\* rows are the rows of the inputs in input order (their count the sum of
\* the input row counts), each cell the source cell, and whose index is
\* exactly 0..n-1.
C10_ConcatInner ==
    (/\ Called("ConcatDataFrames") /\ t.attrs.join_type = "inner"
     /\ arg.kind = "list" /\ Len(arg.items) > 0) =>
        /\ ret.ok
        /\ ret.value.kind = "DataFrame"
        /\ LET out == ret.value.df
               fs == arg.items
           IN  /\ Range(out.columns) =
                     {c \in Range(fs[1].columns) : \A k \in DOMAIN fs : c \in Range(fs[k].columns)}
               /\ Cardinality(Range(out.columns)) = Len(out.columns)
               /\ Len(out.rows) = SumRows(fs)
               /\ out.index = [i \in 1..SumRows(fs) |-> i - 1]
               /\ \A k \in DOMAIN fs : \A i \in DOMAIN fs[k].rows :
                     \A j \in DOMAIN out.columns :
                        out.rows[Offset(fs, k) + i][j] = CellAt(fs[k], i, out.columns[j])

C10_Witness ==
    /\ Called("ConcatDataFrames") /\ t.attrs.join_type = "inner"
    /\ arg.kind = "list" /\ Len(arg.items) = 2
    /\ arg.items[1].columns = <<"A", "volume">>
    /\ arg.items[2].columns = <<"volume", "B">>
    /\ Len(arg.items[1].rows) = 1 /\ Len(arg.items[2].rows) = 1
    /\ ret.ok
    /\ ret.value.df.columns = <<"volume">>
    /\ ret.value.df.index = <<0, 1>>

\* the union of the columns of the frames
AllCols(fs) == UNION {Range(fs[k].columns) : k \in DOMAIN fs}

\* out is the outer concatenation of fs by its columns and row count
OuterShape(fs, out) ==
    /\ Range(out.columns) = AllCols(fs)
    /\ Cardinality(Range(out.columns)) = Len(out.columns)
    /\ Len(out.rows) = SumRows(fs)
    /\ out.index = [i \in 1..SumRows(fs) |-> i - 1]

\* C11 as stated: concat_dataframes with join_type outer returns one frame
\* whose columns are the union of the input columns, a cell holding the "no
\* value" marker exactly when its row comes from an input that lacked that
\* column, every other cell holding the source value.
C11_AsStated ==
    (/\ Called("ConcatDataFrames") /\ t.attrs.join_type = "outer"
     /\ arg.kind = "list" /\ Len(arg.items) > 0) =>
        /\ ret.ok
        /\ ret.value.kind = "DataFrame"
        /\ OuterShape(arg.items, ret.value.df)
        /\ LET out == ret.value.df
               fs == arg.items
           IN  \A k \in DOMAIN fs : \A i \in DOMAIN fs[k].rows :
                  \A j \in DOMAIN out.columns :
                     LET cell == out.rows[Offset(fs, k) + i][j]
                     IN  /\ (cell = NaN) <=> (out.columns[j] \notin Range(fs[k].columns))
                         /\ (cell # NaN) => cell = CellAt(fs[k], i, out.columns[j])

\* C11 amended: the columns are the union of the input columns; a cell whose
\* row comes from an input that lacked the column holds the "no value"
\* marker, and every other cell holds the source cell, which is the marker
\* when the source cell itself held no value.
C11_ConcatOuter ==
    (/\ Called("ConcatDataFrames") /\ t.attrs.join_type = "outer"
     /\ arg.kind = "list" /\ Len(arg.items) > 0) =>
        /\ ret.ok
        /\ ret.value.kind = "DataFrame"
        /\ OuterShape(arg.items, ret.value.df)
        /\ LET out == ret.value.df
               fs == arg.items
           IN  \A k \in DOMAIN fs : \A i \in DOMAIN fs[k].rows :
                  \A j \in DOMAIN out.columns :
                     LET cell == out.rows[Offset(fs, k) + i][j]
                     IN  IF out.columns[j] \in Range(fs[k].columns)
                         THEN cell = CellAt(fs[k], i, out.columns[j])
                         ELSE cell = NaN

C11_Witness ==
    /\ Called("ConcatDataFrames") /\ t.attrs.join_type = "outer"
    /\ arg.kind = "list" /\ Len(arg.items) = 2
    /\ arg.items[1].columns = <<"A", "volume">>
    /\ arg.items[2].columns = <<"volume", "B">>
    /\ Len(arg.items[1].rows) = 1 /\ Len(arg.items[2].rows) = 1
    /\ arg.items[1].rows[1][2] # NaN /\ arg.items[2].rows[1][1] # NaN
    /\ ret.ok
    /\ Range(ret.value.df.columns) = {"A", "volume", "B"}
    /\ CellAt(ret.value.df, 1, "B") = NaN
    /\ CellAt(ret.value.df, 2, "A") = NaN
    /\ CellAt(ret.value.df, 2, "B") # NaN

\* C12: select-columns raises the missing-column error (KeyError), and
\* returns nothing, whenever a requested column is absent from the input or
\* from any frame of an input list.
C12_MissingColumn ==
    (/\ Called("ChooseColsTransform")
     /\ \E k \in DOMAIN FramesOf(arg) :
           ~(Range(t.attrs.columns) \subseteq Range(FramesOf(arg)[k].columns))) =>
        ret = Raise("KeyError")

C12_Witness ==
    /\ Called("ChooseColsTransform")
    /\ t.attrs.columns = <<"volume", "A">>
    /\ arg.kind = "list" /\ Len(arg.items) = 2
    /\ arg.items[1].columns = <<"A", "volume">>
    /\ arg.items[2].columns = <<"volume", "B">>
    /\ ret = Raise("KeyError")

----------------------------------------------------------------------------
(* Claims about effects and failures of apply (specification Spec) *)

ExampleSteps ==
    << [step |-> "choose_columns", params |-> [columns |-> <<"price">>]],
       [step |-> "delete_outlier_in_volume", params |-> [volume_threshold |-> 100]] >>

ExampleInput == Many(<<ExampleOne, ExampleTwo>>)

ExamplePrices ==
    Many(<< [columns |-> <<"price">>, index |-> <<0, 1>>,
             rows |-> << << <<10>> >>, << <<20>> >> >>],
            [columns |-> <<"price">>, index |-> <<0>>,
             rows |-> << << <<30>> >> >>] >>)

OnExample == phase = "built" /\ Steps = ExampleSteps /\ data = ExampleInput

\* call k of the last apply is a filter call on a value with a frame that
\* has no volume column
FilterWithoutVolume(k) ==
    /\ phase = "built"
    /\ transformations[k].cls = "DeleteOutlierInVolume"
    /\ \E f \in DOMAIN FramesOf(calls[k].arg) :
          "volume" \notin Range(FramesOf(calls[k].arg)[f].columns)

\* C14 as stated: on the example step 1 yields the price columns and step 2
\* passes every record through; in general the filter is a no-op on a record
\* set without the volume field.
C14_AsStated ==
    /\ OnExample =>
          /\ calls[1].ret = Ok(ExamplePrices)
          /\ result = Ok(ExamplePrices)
    /\ \A k \in DOMAIN calls :
          FilterWithoutVolume(k) => calls[k].ret = Ok(calls[k].arg)

\* C14 amended: on the example step 1 yields the price columns and step 2
\* raises KeyError, which is what apply raises; in general the filter
\* raises KeyError on a record set without the volume field.
C14_FilterNeedsVolume ==
    /\ OnExample =>
          /\ Len(calls) = 2
          /\ calls[1].ret = Ok(ExamplePrices)
          /\ calls[2].arg = ExamplePrices
          /\ calls[2].ret = Raise("KeyError")
          /\ result = Raise("KeyError")
    /\ \A k \in DOMAIN calls :
          FilterWithoutVolume(k) => calls[k].ret = Raise("KeyError")

C14_Witness ==
    /\ OnExample
    /\ Len(calls) = 2
    /\ result = Raise("KeyError")

C16_ErrorPropagates ==
    (phase = "built" /\ Applied /\ ~result.ok) =>
        LET k == Len(calls)
        IN  /\ k >= 1 /\ k <= Len(transformations)
            /\ \A j \in 1..k : calls[j].pos = j
            /\ \A j \in 1..(k - 1) : calls[j].ret.ok
            /\ ~calls[k].ret.ok
            /\ calls[k].ret = Call(transformations[k], calls[k].arg)
            /\ result = calls[k].ret
            /\ "value" \notin DOMAIN result

C16_Witness ==
    /\ phase = "built" /\ Applied /\ ~result.ok
    /\ Len(transformations) = 3
    /\ Len(calls) = 2
    /\ calls[1].ret.value # data
    /\ result.err = "KeyError"

====
